---- MODULE Spec2Model ----
(***************************************************************************)
(* CSWSearch (eodag/plugins/search/csw.py): the CSW search plugin.         *)
(*                                                                         *)
(* State: the plugin instance (self.catalog and the records its last       *)
(* successful GetRecords left in it), the remote catalogue's answers, and  *)
(* the position of the running query() call.                               *)
(*                                                                         *)
(* Python values are encoded as follows.  An optional value is a sequence  *)
(* of length 0 (None / key absent) or 1.  A Python list is a sequence.     *)
(* A string the code formats is a TLA+ string; a string the code inspects  *)
(* character by character is a sequence of one-character strings.         *)
(***************************************************************************)
EXTENDS Integers, Sequences, FiniteSets, TLC

VARIABLES
    config,          \* self.config: search_definitions (pt_tags, filter)
    catalog,         \* self.catalog: None or the CatalogueServiceWeb handle
    records,         \* self.catalog.records: records of the last successful GetRecords
    handles,         \* number of CatalogueServiceWeb objects constructed successfully
    remote,          \* the remote catalogue: its answer to each definition's query
    pc,              \* position of the query() call: idle, loop, returned, raised
    input,           \* arguments of the current (or last) query() call
    idx,             \* loop position in config[SEARCH_DEF][PRODUCT_TYPE] (1-based)
    results,         \* the local list `results` of the call
    sent,            \* GetRecords requests issued by this call, in order
    attempted,       \* did this call invoke the CatalogueServiceWeb constructor
    catalogAtStart,  \* self.catalog when this call started
    fault,           \* the exception that left query(), when pc = "raised"
    first,           \* outcome of the first completed call that had a connection
    fnArgs,          \* arguments of a direct call of one of the private helpers
    fnResult         \* its return value

vars == <<config, catalog, records, handles, remote, pc, input, idx, results,
          sent, attempted, catalogAtStart, fault, first, fnArgs, fnResult>>

-----------------------------------------------------------------------------
(* Bounds of the model *)

MaxDefs == 2        \* configured product type definitions
MaxRecs == 2        \* records in one GetRecords answer
MaxRefs == 3        \* references of a record handed to __build_product
MaxHandles == 3     \* catalogue connections ever opened (cap of the counter)

-----------------------------------------------------------------------------
(* Optional values *)

None == <<>>
Some(v) == <<v>>
IsNone(o) == o = <<>>
Truthy(o) == Len(o) = 1 /\ o[1] # ""     \* Python truth of an optional string

Range(s) == {s[i] : i \in 1..Len(s)}

RECURSIVE SeqsUpTo(_, _)
\* all sequences over S of length at most n
SeqsUpTo(S, n) ==
    IF n = 0 THEN {<<>>}
    ELSE LET shorter == SeqsUpTo(S, n - 1)
         IN  shorter \cup {Append(s, x) : s \in {t \in shorter : Len(t) = n - 1}, x \in S}

\* dict d after d[k] = v for every key k of e
Update(d, e) ==
    [k \in DOMAIN d \cup DOMAIN e |-> IF k \in DOMAIN e THEN e[k] ELSE d[k]]

NoRepeat(s) == \A i, j \in 1..Len(s) : i # j => s[i] # s[j]

-----------------------------------------------------------------------------
(* Constants of csw.py *)

SUPPORTED_REFERENCE_SCHEMES == {"WWW:DOWNLOAD-1.0-http--download"}
OtherScheme == "WWW:LINK-1.0-http--link"

DateTags == [start |-> "dc:date_start", end |-> "dc:date_end"]
InstanceName == "csw_provider"

-----------------------------------------------------------------------------
(* Constraint Builder: CSWSearch.__convert_query_params *)

\* owslib.fes constraint objects, tagged by their class; a nested Python list
\* (the AND group) is tagged "list"
PropertyIsLike(name, literal) ==
    [kind |-> "PropertyIsLike", propertyname |-> name, literal |-> literal]
PropertyIsEqualTo(name, literal) ==
    [kind |-> "PropertyIsEqualTo", propertyname |-> name, literal |-> literal]
PropertyIsGreaterThanOrEqualTo(name, literal) ==
    [kind |-> "PropertyIsGreaterThanOrEqualTo", propertyname |-> name, literal |-> literal]
PropertyIsLessThanOrEqualTo(name, literal) ==
    [kind |-> "PropertyIsLessThanOrEqualTo", propertyname |-> name, literal |-> literal]
BBox(box) == [kind |-> "BBox", bbox |-> box]
List(members) == [kind |-> "list", members |-> members]

\* product_type_def.get('matching', 'fuzzy')
Matching(def) == IF IsNone(def.matching) THEN "fuzzy" ELSE def.matching[1]

\* mutant: the prefix and postfix patterns exchanged
ProductTypeConstraintSwapped(def, product_type) ==
    LET matching == Matching(def) IN
    IF matching = "prefix" THEN PropertyIsLike(def.name, "%" \o product_type)
    ELSE IF matching = "postfix" THEN PropertyIsLike(def.name, product_type \o "%")
    ELSE IF matching = "exact" THEN PropertyIsEqualTo(def.name, product_type)
    ELSE PropertyIsLike(def.name, "%" \o product_type \o "%")

\* the if / elif chain on `matching`
ProductTypeConstraint(def, product_type) ==
    LET matching == Matching(def) IN
    IF matching = "prefix" THEN PropertyIsLike(def.name, product_type \o "%")
    ELSE IF matching = "postfix" THEN PropertyIsLike(def.name, "%" \o product_type)
    ELSE IF matching = "exact" THEN PropertyIsEqualTo(def.name, product_type)
    ELSE PropertyIsLike(def.name, "%" \o product_type \o "%")

\* fp = params.get('geometry'); if fp: BBox([lonmin, latmin, lonmax, latmax])
FootprintConstraints(params) ==
    IF IsNone(params.geometry) THEN <<>>
    ELSE LET fp == params.geometry[1]
         IN  <<BBox(<<fp.lonmin, fp.latmin, fp.lonmax, fp.latmax>>)>>

\* if start: ... ; if end: ...
DateConstraints(params) ==
    (IF Truthy(params.startTimeFromAscendingNode)
        THEN <<PropertyIsGreaterThanOrEqualTo(DateTags.start,
                                              params.startTimeFromAscendingNode[1])>>
        ELSE <<>>)
    \o
    (IF Truthy(params.completionTimeFromAscendingNode)
        THEN <<PropertyIsLessThanOrEqualTo(DateTags.end,
                                           params.completionTimeFromAscendingNode[1])>>
        ELSE <<>>)

\* mutant: the group is made only for more than two constraints
GroupOffByOne(constraints) ==
    IF Len(constraints) > 2 THEN <<List(constraints)>> ELSE constraints

\* return [constraints] if len(constraints) > 1 else constraints
Group(constraints) ==
    IF Len(constraints) > 1 THEN <<List(constraints)>> ELSE constraints

\* the constraints in the order they are appended, before grouping
Produced(def, product_type, params) ==
    <<ProductTypeConstraint(def, product_type)>>
        \o FootprintConstraints(params) \o DateConstraints(params)

convert_query_params(def, product_type, params) ==
    Group(Produced(def, product_type, params))

-----------------------------------------------------------------------------
(* Product Normalizer: CSWSearch.__build_product *)

DefaultCode == <<"EPSG", 4326>>
KnownCodes == {<<"EPSG", 4326>>, <<"EPSG", 32631>>}

\* code = 'EPSG:4326', or 'id:code' when the record's crs code is set and positive
CrsCode(rec) ==
    LET crs == rec.bbox.crs IN
    IF ~IsNone(crs.code) /\ crs.code[1] # 0 /\ crs.code[1] > 0
    THEN <<crs.id, crs.code[1]>>
    ELSE DefaultCode

\* pyproj.Proj(init=code) raises for a code it does not know
ProjRaises(code) == code \notin KnownCodes

\* pyproj.transform(rec_proj, DEFAULT_PROJ, x, y): the identity from the default
\* system, and for UTM 31N metres to whole degrees around the central meridian
Transform(code, x, y) ==
    IF code = DefaultCode THEN <<x, y>>
    ELSE <<3 + ((x - 500000) \div 100000), y \div 111000>>

\* bbox = rec.bbox_wgs84, or (minx, miny, maxx, maxy) reprojected corner by corner
Bbox(rec) ==
    IF ~IsNone(rec.bbox_wgs84) THEN rec.bbox_wgs84[1]
    ELSE LET code == CrsCode(rec)
             maxp == Transform(code, rec.bbox.maxx, rec.bbox.maxy)
             minp == Transform(code, rec.bbox.minx, rec.bbox.miny)
         IN  <<minp[1], minp[2], maxp[1], maxp[2]>>

ReprojectionRaises(rec) == IsNone(rec.bbox_wgs84) /\ ProjRaises(CrsCode(rec))

\* re.compile(pattern).search(url), tabulated for the patterns and URLs used
RegexSearch(pattern, url) ==
    <<pattern, url>> \in {<<"a.example", "http://a.example/p.zip">>}

\* mutant: the filter excludes the URLs it does not match
ChosenUrlFiltered(ref, pattern) ==
    IF pattern # "" /\ RegexSearch(pattern, ref.url) THEN ref.url ELSE ""

\* both branches of the resource filter test assign ref['url']
ChosenUrl(ref, pattern) ==
    IF pattern # "" /\ RegexSearch(pattern, ref.url) THEN ref.url ELSE ref.url

RECURSIVE ScanReferences(_, _, _)
\* for ref in rec.references: ... break, from position i on
ScanReferences(refs, i, pattern) ==
    IF i > Len(refs) THEN ""
    ELSE IF refs[i].scheme \in SUPPORTED_REFERENCE_SCHEMES
         THEN ChosenUrl(refs[i], pattern)
         ELSE ScanReferences(refs, i + 1, pattern)

DownloadUrl(rec, cfg) == ScanReferences(rec.references, 1, cfg.resource_location_filter)

\* properties_from_xml raises on a payload it cannot parse
MappingRaises(rec) == ~rec.xml.wellformed

\* properties_from_xml(rec.xml, metadata_mapping): the mapped fields
properties_from_xml(xml) == xml.fields

Alnum == {"a", "s", "c", "A", "S", "C", "0", "1", "2"}
Lower(c) == IF c = "A" THEN "a" ELSE IF c = "S" THEN "s" ELSE IF c = "C" THEN "c" ELSE c

RECURSIVE SlugifyFrom(_, _, _)
SlugifyFrom(s, i, out) ==
    IF i > Len(s) THEN out
    ELSE IF s[i] \in Alnum THEN SlugifyFrom(s, i + 1, Append(out, Lower(s[i])))
    ELSE IF out # <<>> /\ out[Len(out)] # "-" THEN SlugifyFrom(s, i + 1, Append(out, "-"))
    ELSE SlugifyFrom(s, i + 1, out)

\* slugify(rec.identifier): lower case, runs of other characters become one "-"
slugify(s) ==
    LET out == SlugifyFrom(s, 1, <<>>) IN
    IF out # <<>> /\ out[Len(out)] = "-" THEN SubSeq(out, 1, Len(out) - 1) ELSE out

BuildRaises(rec) == ReprojectionRaises(rec) \/ MappingRaises(rec)

\* the EOProduct returned for a record that normalizes
build_product(rec, product_type, kwargs, cfg) ==
    [product_type |-> product_type,
     provider |-> InstanceName,
     location |-> DownloadUrl(rec, cfg),
     properties |-> Update(properties_from_xml(rec.xml),
                           [title |-> slugify(rec.identifier),
                            geometry |-> Bbox(rec),
                            productType |-> product_type]),
     searched_bbox |-> kwargs.footprints]

\* [self.__build_product(record, ...) for record in self.catalog.records.values()]
BuildAll(recs, product_type, kwargs, cfg) ==
    [k \in 1..Len(recs) |-> build_product(recs[k], product_type, kwargs, cfg)]

AnyBuildRaises(recs) == \E k \in 1..Len(recs) : BuildRaises(recs[k])

-----------------------------------------------------------------------------
(* The values the model draws its inputs from *)

ProductTypes == {"S2", "L8"}
Modes == {None, Some("fuzzy"), Some("prefix"), Some("postfix"), Some("exact"), Some("typo")}
TagNames == <<"dc:type", "dc:subject", "dc:title", "dc:format">>

Footprint1 == [lonmin |-> 1, latmin |-> 43, lonmax |-> 2, latmax |-> 44]
Footprint2 == [lonmin |-> 5, latmin |-> 40, lonmax |-> 6, latmax |-> 41]
Credentials == [username |-> "user", password |-> "secret"]

\* keyword arguments of query() other than auth; None is an absent key
Kwargs(geometry, footprints, start, end) ==
    [geometry |-> geometry, footprints |-> footprints,
     startTimeFromAscendingNode |-> start, completionTimeFromAscendingNode |-> end]

UrlA == "http://a.example/p.zip"
UrlB == "http://b.example/q.zip"
Reference(scheme, url) == [scheme |-> scheme, url |-> url]
References ==
    {Reference(sch, url) : sch \in SUPPORTED_REFERENCE_SCHEMES \cup {OtherScheme},
                           url \in {UrlA, UrlB}}

Wgs84Box == <<1, 43, 2, 44>>
UtmBox(code) == [minx |-> 499000, miny |-> 4500000, maxx |-> 500000, maxy |-> 4501000,
                 crs |-> [id |-> "EPSG", code |-> code]]
Payload(ok, platform) ==
    [wellformed |-> ok, fields |-> [title |-> "raw title", platform |-> platform]]

RawRecord(identifier, wgs84, code, refs, xml) ==
    [identifier |-> identifier, bbox_wgs84 |-> wgs84, bbox |-> UtmBox(code),
     references |-> refs, xml |-> xml]

\* the records the remote catalogue holds
RecA == RawRecord(<<"S", "2", " ", "A", " ", "0", "1">>, Some(Wgs84Box), None,
                  <<Reference(OtherScheme, UrlB),
                    Reference("WWW:DOWNLOAD-1.0-http--download", UrlA)>>,
                  Payload(TRUE, "S2A"))
RecB == RawRecord(<<"S", "2", "_", "_", "C">>, None, Some(32631),
                  <<Reference(OtherScheme, UrlA)>>, Payload(TRUE, "S2B"))
RecBad == RawRecord(<<"c", "r", "s">>, None, Some(99999),
                    <<Reference("WWW:DOWNLOAD-1.0-http--download", UrlB)>>,
                    Payload(FALSE, "S2A"))
CatalogRecords == {RecA, RecB, RecBad}

\* an answer of the remote catalogue to one GetRecords request: an OWS
\* exception report, another failure of the call (transport, parsing), or the
\* records, which owslib keys by identifier
ExceptionReport == [kind |-> "ExceptionReport", recs |-> <<>>]
OtherError == [kind |-> "OtherError", recs |-> <<>>]
Found(recs) == [kind |-> "records", recs |-> recs]
Answers ==
    {ExceptionReport, OtherError}
        \cup {Found(recs) : recs \in {s \in SeqsUpTo(CatalogRecords, MaxRecs) : NoRepeat(s)}}

\* search_definitions: pt_tags with the matching modes in turn, and the filter
Definition(i) ==
    [name |-> TagNames[((i - 1) % Len(TagNames)) + 1],
     matching |-> IF i % 3 = 1 THEN Some("prefix")
                  ELSE IF i % 3 = 2 THEN None ELSE Some("exact")]
Configs ==
    {[pt_tags |-> [i \in 1..n |-> Definition(i)], resource_location_filter |-> f] :
        n \in {MaxDefs}, f \in {"a.example"}}

QueryInputs ==
    {[product_type |-> "S2", kwargs |-> Kwargs(g, f, Some("2018-01-01"), None),
      auth |-> a] :
        g \in {None, Some(Footprint1)}, f \in {None, Some(Footprint2)},
        a \in {None, Some(Credentials)}}

BuildArgs ==
    {[def |-> [name |-> "dc:type", matching |-> m], product_type |-> pt,
      params |-> Kwargs(g, None, st, en)] :
        m \in Modes, pt \in ProductTypes, g \in {None, Some(Footprint1)},
        st \in {None, Some(""), Some("2018-01-01")},
        en \in {None, Some(""), Some("2018-12-31")}}

NormalizeArgs ==
    {[rec |-> RawRecord(<<"S", "2", " ", "0", "1">>, box[1], box[2], refs, xml),
      product_type |-> "S2", kwargs |-> Kwargs(Some(Footprint1), f, None, None),
      cfg |-> [pt_tags |-> <<>>, resource_location_filter |-> pattern]] :
        box \in {<<Some(Wgs84Box), None>>, <<None, None>>, <<None, Some(0)>>,
                 <<None, Some(-1)>>, <<None, Some(32631)>>, <<None, Some(99999)>>},
        refs \in SeqsUpTo(References, MaxRefs),
        xml \in {Payload(TRUE, "S2A"), Payload(FALSE, "S2A")},
        f \in {None, Some(Footprint2)},
        pattern \in {"", "a.example"}}

-----------------------------------------------------------------------------
(* Catalog Query Orchestrator: CSWSearch.__init__, __init_catalog, query *)

NotCalled == [done |-> FALSE, raised |-> FALSE, value |-> <<>>]
Returned(v) == [done |-> TRUE, raised |-> FALSE, value |-> <<v>>]
Raised == [done |-> TRUE, raised |-> TRUE, value |-> <<>>]

\* the plugin after __init__, no call made and none running
Constructed ==
    /\ catalog = None
    /\ records = <<>>
    /\ handles = 0
    /\ pc = "idle"
    /\ input = None
    /\ idx = 1
    /\ results = <<>>
    /\ sent = <<>>
    /\ attempted = FALSE
    /\ catalogAtStart = None
    /\ fault = ""
    /\ first = None
    /\ fnResult = NotCalled

Init ==
    /\ Constructed
    /\ config \in Configs
    /\ remote \in [1..MaxDefs -> Answers]
    /\ fnArgs = None

\* mutant: the connection is opened on every call
NeedsInitAlways(cat) == TRUE

\* if not self.catalog
NeedsInit(cat) == IsNone(cat)

\* mutant: the loop is entered without a connection
CatalogUsableAlways(cat) == TRUE

\* if self.catalog
CatalogUsable(cat) == ~IsNone(cat)

\* self.catalog after __init_catalog: the constructor's exception is swallowed
\* and leaves self.catalog as it was
init_catalog(cat, auth, ok, n) ==
    IF NeedsInit(cat) /\ ok
    THEN Some([id |-> n,
               username |-> IF IsNone(auth) THEN None ELSE Some(auth[1].username)])
    ELSE cat

\* mutant: results survives from one call to the next
FreshResultsKept(old) == old

\* results = []
FreshResults(old) == <<>>

\* mutant: every exception of getrecords2 is swallowed
IsAnyException(answer) == answer.kind # "records"

\* except ExceptionReport
IsServiceException(answer) == answer.kind = "ExceptionReport"

\* the loop's next position after definition i of n
Advance(i, n) == IF i + 1 > n THEN "returned" ELSE "loop"

\* mutant: the except clause leaves the loop
ExceptionReportBreaks(i, n) == "returned"

\* continue
AfterExceptionReport(i, n) == Advance(i, n)

\* mutant: without the continue the records left in self.catalog are built again
ExceptionReportFallsThrough(res, stale) == res \o stale

\* results as the except clause leaves it
OnExceptionReport(res, stale) == res

\* the first completed call of a repeated one that had a connection
Remember(repeat, newpc, cat, res) ==
    IF repeat /\ IsNone(first) /\ newpc \in {"returned", "raised"} /\ ~IsNone(cat)
    THEN Some([pc |-> newpc, results |-> res])
    ELSE first

\* query(product_type, **kwargs) up to the loop; ok: the constructor succeeds
Query(in, ok, repeat) ==
    /\ pc # "loop"
    /\ repeat => (IsNone(input) \/ input = Some(in))
    /\ (NeedsInit(catalog) /\ ok) => handles < MaxHandles
    /\ LET opened == NeedsInit(catalog) /\ ok
           cat == init_catalog(catalog, in.auth, ok, handles + 1)
           newpc == IF CatalogUsable(cat) /\ Len(config.pt_tags) > 0
                    THEN "loop" ELSE "returned"
       IN  /\ catalog' = cat
           /\ handles' = IF opened THEN handles + 1 ELSE handles
           /\ records' = IF opened THEN <<>> ELSE records
           /\ attempted' = NeedsInit(catalog)
           /\ catalogAtStart' = catalog
           /\ input' = Some(in)
           /\ results' = FreshResults(results)
           /\ sent' = <<>>
           /\ idx' = 1
           /\ fault' = ""
           /\ pc' = newpc
           /\ first' = Remember(repeat, newpc, cat, FreshResults(results))
    /\ UNCHANGED <<config, remote, fnArgs, fnResult>>

\* the GetRecords request of the current definition
Request ==
    [handle |-> catalog,
     constraints |-> convert_query_params(config.pt_tags[idx], input[1].product_type,
                                          input[1].kwargs),
     esn |-> "full", maxrecords |-> 10]

\* getrecords2 raises ExceptionReport: logged, next definition
GetRecordsExceptionReport(repeat) ==
    /\ pc = "loop"
    /\ ~IsNone(catalog)
    /\ IsServiceException(remote[idx])
    /\ LET newpc == AfterExceptionReport(idx, Len(config.pt_tags))
           res == OnExceptionReport(results,
                      BuildAll(records, input[1].product_type, input[1].kwargs, config))
       IN  /\ pc' = newpc
           /\ results' = res
           /\ first' = Remember(repeat, newpc, catalog, res)
    /\ sent' = Append(sent, Request)
    /\ idx' = idx + 1
    /\ UNCHANGED <<config, catalog, records, handles, remote, input, attempted,
                   catalogAtStart, fault, fnArgs, fnResult>>

\* getrecords2 raises anything else (or self.catalog has no such method): the
\* exception leaves query
GetRecordsRaises(repeat) ==
    /\ pc = "loop"
    /\ \/ IsNone(catalog)
       \/ remote[idx].kind # "records" /\ ~IsServiceException(remote[idx])
    /\ pc' = "raised"
    /\ fault' = IF IsNone(catalog) THEN "AttributeError" ELSE remote[idx].kind
    /\ results' = <<>>
    /\ sent' = IF IsNone(catalog) THEN sent ELSE Append(sent, Request)
    /\ first' = Remember(repeat, "raised", catalog, <<>>)
    /\ UNCHANGED <<config, catalog, records, handles, remote, input, idx, attempted,
                   catalogAtStart, fnArgs, fnResult>>

\* getrecords2 succeeds and every record normalizes: results.extend(partial_results)
GetRecordsFound(repeat) ==
    /\ pc = "loop"
    /\ ~IsNone(catalog)
    /\ remote[idx].kind = "records"
    /\ ~AnyBuildRaises(remote[idx].recs)
    /\ LET newpc == Advance(idx, Len(config.pt_tags))
           res == results \o BuildAll(remote[idx].recs, input[1].product_type,
                                      input[1].kwargs, config)
       IN  /\ pc' = newpc
           /\ results' = res
           /\ first' = Remember(repeat, newpc, catalog, res)
    /\ records' = remote[idx].recs
    /\ sent' = Append(sent, Request)
    /\ idx' = idx + 1
    /\ UNCHANGED <<config, catalog, handles, remote, input, attempted,
                   catalogAtStart, fault, fnArgs, fnResult>>

\* the exception of the first record that does not normalize
BuildFault(recs) ==
    LET k == CHOOSE k \in 1..Len(recs) :
                 BuildRaises(recs[k]) /\ \A j \in 1..(k - 1) : ~BuildRaises(recs[j])
    IN  IF ReprojectionRaises(recs[k]) THEN "ReprojectionError" ELSE "MappingError"

\* getrecords2 succeeds and __build_product raises for a record: the exception
\* leaves query
BuildProductRaises(repeat) ==
    /\ pc = "loop"
    /\ ~IsNone(catalog)
    /\ remote[idx].kind = "records"
    /\ AnyBuildRaises(remote[idx].recs)
    /\ pc' = "raised"
    /\ fault' = BuildFault(remote[idx].recs)
    /\ results' = <<>>
    /\ records' = remote[idx].recs
    /\ sent' = Append(sent, Request)
    /\ first' = Remember(repeat, "raised", catalog, <<>>)
    /\ UNCHANGED <<config, catalog, handles, remote, input, idx, attempted,
                   catalogAtStart, fnArgs, fnResult>>

Next ==
    \/ \E in \in QueryInputs, ok \in BOOLEAN : Query(in, ok, FALSE)
    \/ GetRecordsExceptionReport(FALSE)
    \/ GetRecordsRaises(FALSE)
    \/ GetRecordsFound(FALSE)
    \/ BuildProductRaises(FALSE)

Spec == Init /\ [][Next]_vars

\* the same call repeated on one instance against an unchanged catalogue
NextRepeat ==
    \/ \E in \in QueryInputs, ok \in BOOLEAN : Query(in, ok, TRUE)
    \/ GetRecordsExceptionReport(TRUE)
    \/ GetRecordsRaises(TRUE)
    \/ GetRecordsFound(TRUE)
    \/ BuildProductRaises(TRUE)

SpecRepeat == Init /\ [][NextRepeat]_vars

-----------------------------------------------------------------------------
(* The private helpers called on their own *)

InitBuild ==
    /\ Constructed
    /\ config \in Configs
    /\ remote = [i \in 1..MaxDefs |-> Found(<<>>)]
    /\ fnArgs \in BuildArgs

Build ==
    /\ ~fnResult.done
    /\ fnResult' = Returned(convert_query_params(fnArgs.def, fnArgs.product_type,
                                                 fnArgs.params))
    /\ UNCHANGED <<config, catalog, records, handles, remote, pc, input, idx, results,
                   sent, attempted, catalogAtStart, fault, first, fnArgs>>

SpecBuild == InitBuild /\ [][Build]_vars

InitNormalize ==
    /\ Constructed
    /\ fnArgs \in NormalizeArgs
    /\ config = fnArgs.cfg
    /\ remote = [i \in 1..MaxDefs |-> Found(<<>>)]

Normalize ==
    /\ ~fnResult.done
    /\ fnResult' = IF BuildRaises(fnArgs.rec) THEN Raised
                   ELSE Returned(build_product(fnArgs.rec, fnArgs.product_type,
                                               fnArgs.kwargs, fnArgs.cfg))
    /\ UNCHANGED <<config, catalog, records, handles, remote, pc, input, idx, results,
                   sent, attempted, catalogAtStart, fault, first, fnArgs>>

SpecNormalize == InitNormalize /\ [][Normalize]_vars

-----------------------------------------------------------------------------
(* Properties *)

Queried == 1..Len(sent)
Definitions == 1..Len(config.pt_tags)

\* the products of the records the remote catalogue returns for definition i
ProductsOf(i) ==
    IF remote[i].kind = "records"
    THEN BuildAll(remote[i].recs, input[1].product_type, input[1].kwargs, config)
    ELSE <<>>

\* s occurs in t as a run of consecutive elements
OccursIn(s, t) ==
    \E o \in 0..(Len(t) - Len(s)) : \A k \in 1..Len(s) : t[o + k] = s[k]

C3_ConnectedOnce ==
    /\ handles <= 1
    /\ ~IsNone(catalogAtStart) => ~attempted /\ catalog = catalogAtStart
    /\ \A k \in Queried : sent[k].handle = catalog /\ catalog[1].id = 1

C3_Witness ==
    /\ pc = "returned"
    /\ ~IsNone(catalogAtStart)
    /\ ~IsNone(input[1].auth)
    /\ catalog[1].username = None
    /\ Len(sent) = MaxDefs

\* C4: a call in which the connection could not be opened has returned the
\* empty sequence without raising and without sending any request.
C4_ConnectionFailureReturnsEmpty ==
    (pc # "idle" /\ attempted /\ IsNone(catalog)) =>
        pc = "returned" /\ results = <<>> /\ sent = <<>>

C4_Witness == pc = "returned" /\ attempted /\ IsNone(catalog) /\ ~IsNone(input[1].auth)

RECURSIVE Concatenation(_)
\* the products of definitions 1..n, definition by definition
Concatenation(n) == IF n = 0 THEN <<>> ELSE Concatenation(n - 1) \o ProductsOf(n)

\* C5: the accumulated result is the concatenation, in definition order, of the
\* products of each queried definition's own records in their order (nothing
\* for a failed one), and a returning call with a connection queried them all.
C5_ResultIsConcatenation ==
    /\ pc \in {"loop", "returned"} => results = Concatenation(Len(sent))
    /\ (pc = "returned" /\ ~IsNone(catalog)) => Len(sent) = Len(config.pt_tags)

C5_Witness ==
    /\ pc = "returned"
    /\ remote[1] = Found(<<RecB, RecA>>)
    /\ \A j \in 2..MaxDefs : remote[j] = ExceptionReport
    /\ Len(results) = 2
    /\ results[1].properties.title = <<"s", "2", "-", "c">>

\* the constraints a call of __convert_query_params has to produce, by class
ExpectedKinds ==
    <<IF fnArgs.def.matching = Some("exact") THEN "PropertyIsEqualTo"
      ELSE "PropertyIsLike">>
    \o (IF fnArgs.params.geometry # None THEN <<"BBox">> ELSE <<>>)
    \o (IF fnArgs.params.startTimeFromAscendingNode \notin {None, Some("")}
        THEN <<"PropertyIsGreaterThanOrEqualTo">> ELSE <<>>)
    \o (IF fnArgs.params.completionTimeFromAscendingNode \notin {None, Some("")}
        THEN <<"PropertyIsLessThanOrEqualTo">> ELSE <<>>)

\* C6: build returns its constraints ungrouped when there is at most one, and
\* as exactly one group holding all of them in production order (product type,
\* footprint, start, end) when there are two or more.
C6_GroupedIffSeveral ==
    fnResult.done =>
        LET out == fnResult.value[1]
            want == ExpectedKinds
        IN  IF Len(want) <= 1
            THEN Len(out) = Len(want) /\ \A k \in 1..Len(out) : out[k].kind = want[k]
            ELSE /\ Len(out) = 1
                 /\ out[1].kind = "list"
                 /\ Len(out[1].members) = Len(want)
                 /\ \A k \in 1..Len(want) : out[1].members[k].kind = want[k]

C6_Witness ==
    /\ fnResult.done
    /\ Len(fnResult.value[1]) = 1
    /\ fnResult.value[1][1].kind = "list"
    /\ Len(fnResult.value[1][1].members) = 4

\* the product type constraint of the value build returned
FirstConstraint ==
    LET out == fnResult.value[1]
    IN  IF out[1].kind = "list" THEN out[1].members[1] ELSE out[1]

\* C7: the product type constraint is on the definition's tag name and is a
\* pattern match on 'value%' for prefix, on '%value' for postfix, an equality
\* on value for exact, and the pattern match on '%value%' for any other mode
\* or none.
C7_MatchingMode ==
    fnResult.done =>
        LET c == FirstConstraint
            m == fnArgs.def.matching
            v == fnArgs.product_type
        IN  /\ c.propertyname = fnArgs.def.name
            /\ m = Some("prefix") => c.kind = "PropertyIsLike" /\ c.literal = v \o "%"
            /\ m = Some("postfix") => c.kind = "PropertyIsLike" /\ c.literal = "%" \o v
            /\ m = Some("exact") => c.kind = "PropertyIsEqualTo" /\ c.literal = v
            /\ m \notin {Some("prefix"), Some("postfix"), Some("exact")} =>
                   c.kind = "PropertyIsLike" /\ c.literal = "%" \o v \o "%"

C7_Witness ==
    /\ fnResult.done
    /\ fnArgs.def.matching = Some("typo")
    /\ fnArgs.product_type = "S2"
    /\ FirstConstraint.literal = "%S2%"

\* positions of the references with the recognized scheme
Recognized(refs) ==
    {i \in 1..Len(refs) : refs[i].scheme = "WWW:DOWNLOAD-1.0-http--download"}

\* C8: the download URL of the product is the URL of the first reference with
\* the recognized scheme, with or without a filter and whether it matches, and
\* it is empty exactly when no reference has that scheme.
C8_FirstRecognizedUrl ==
    (fnResult.done /\ ~fnResult.raised) =>
        LET refs == fnArgs.rec.references
            url == fnResult.value[1].location
            rec == Recognized(refs)
        IN  /\ rec # {} =>
                   url = refs[CHOOSE i \in rec : \A j \in rec : i <= j].url
            /\ url = "" <=> rec = {}

C8_Witness ==
    /\ fnResult.done
    /\ ~fnResult.raised
    /\ fnArgs.cfg.resource_location_filter = "a.example"
    /\ fnArgs.rec.references =
           <<Reference(OtherScheme, UrlA),
             Reference("WWW:DOWNLOAD-1.0-http--download", UrlB),
             Reference("WWW:DOWNLOAD-1.0-http--download", UrlA)>>
    /\ fnResult.value[1].location = UrlB

\* C9 as claimed: every product of a call whose params carry a footprint (the
\* one the bounding-box constraint is built from) has it as searched footprint.
C9_SearchedFootprint ==
    (pc = "returned" /\ ~IsNone(input[1].kwargs.geometry)) =>
        \A k \in 1..Len(results) :
            results[k].searched_bbox = input[1].kwargs.geometry

\* C10: a call made again with the same arguments on an instance that already
\* has its connection, against an unchanged catalogue, ends as the first such
\* call ended and returns the same sequence of products.
C10_RepeatedCallSameResult ==
    (pc \in {"returned", "raised"} /\ ~IsNone(catalogAtStart)) =>
        /\ ~IsNone(first)
        /\ first[1].pc = pc
        /\ pc = "returned" => results = first[1].results

C10_Witness ==
    /\ pc = "returned"
    /\ ~IsNone(catalogAtStart)
    /\ ~IsNone(first)
    /\ remote[1] = Found(<<RecA>>)
    /\ \A j \in 2..MaxDefs : remote[j] = ExceptionReport
    /\ records = <<RecA>>
    /\ Len(results) = 1

====
